---- MODULE Spec2Model ----
(***************************************************************************)
(* State-machine model of the reL4 installer (src/src/install.rs,          *)
(* src/src/main.rs).  One invocation of the tool is a walk through the     *)
(* code of install(): every external command the code spawns and every     *)
(* filesystem change it makes is one entry of `trace'.  The outcome of an  *)
(* external command is an input.  The staging directories under /tmp       *)
(* survive from one invocation to the next.                                *)
(***************************************************************************)
EXTENDS Integers, Sequences, FiniteSets, TLC

VARIABLES opts, pc, attempts, fs, fs0, trace, result, runs

vars == <<opts, pc, attempts, fs, fs0, trace, result, runs>>

(* ---------------------------- bounds ----------------------------------- *)

\* number of invocations of the tool in one behaviour
MaxRuns == 2

(* ----------------------- program constants ----------------------------- *)

\* the literal 3 of `attempts < 3' in the three clone loops
RetryLimit == 3

Rel4Path == "/tmp/rel4_kernel"
Sel4Path == "/tmp/seL4_kernel"
LocalPath == "/home/dev/rel4_kernel"
LocalSel4Path == "/home/dev/rel4_kernel/../kernel"
Prefix == "/workspace/.seL4"
BaselineCommit == "abc123"

Platforms == {"spike", "qemu-arm-virt", "pc99"}
Branches == {"master", "dev"}

\* KernelOptions as parsed by clap; local and sel4_baseline are Option<String>
KernelOptions ==
    [platform : Platforms, mcs : BOOLEAN, nofastpath : BOOLEAN, bin : BOOLEAN,
     sel4_prefix : {Prefix}, local : {"None", LocalPath}, branch : Branches,
     force : BOOLEAN, sel4_baseline : {"None", BaselineCommit}]

DefaultOptions ==
    [platform |-> "qemu-arm-virt", mcs |-> FALSE, nofastpath |-> FALSE,
     bin |-> FALSE, sel4_prefix |-> Prefix, local |-> "None",
     branch |-> "master", force |-> FALSE, sel4_baseline |-> "None"]

(* ----------------------- the environment -------------------------------- *)

\* variables of the environment the tool is started in
Inherited == {"PATH", "HOME", "RUSTUP_TOOLCHAIN", "CARGO"}

\* ExitStatus of Command::status(): exited zero, exited non-zero, or the
\* io::Error of a process that could not be started
Statuses == {"ok", "fail", "nostart"}

\* a command whose current_dir does not exist cannot be started
Outcomes(cwdExists) == IF cwdExists THEN Statuses ELSE {"nostart"}

\* a directory under /tmp: absent, the tree of a clone, or the debris of a
\* clone that did not finish
Absent == [exists |-> FALSE, origin |-> "none", branch |-> "none", fixed |-> FALSE]
Debris == [exists |-> TRUE, origin |-> "partial", branch |-> "none", fixed |-> FALSE]
Tree(origin, branch) ==
    [exists |-> TRUE, origin |-> origin, branch |-> branch, fixed |-> FALSE]

Event(op, dir, args, env, res) ==
    [op |-> op, dir |-> dir, args |-> args, env |-> env, res |-> res]

\* std::fs call, no child process
FsEvent(op, dir, res) == Event(op, dir, <<>>, {}, res)

(* ------------------ argument lists composed by the code ----------------- *)

\* vec![...] then the platform match of install_rel4_kernel, then the mode flags
XtaskPlatformArgs(platform) ==
    IF platform = "spike" THEN <<"--platform", "spike">>
    ELSE IF platform = "qemu-arm-virt"
         THEN <<"--platform", "qemu-arm-virt", "-s", "on", "--arm-pcnt", "--arm-ptmr">>
         ELSE <<>>

\* mutant of XtaskArgs: --bin is never appended
XtaskArgs_NoBin(o) ==
    <<"run", "nightly-2024-02-01", "cargo", "xtask", "build", "--rust-only">>
    \o XtaskPlatformArgs(o.platform)
    \o (IF o.mcs THEN <<"--mcs", "on">> ELSE <<>>)
    \o (IF o.nofastpath THEN <<"--nofastpath">> ELSE <<>>)

XtaskArgs(o) ==
    <<"run", "nightly-2024-02-01", "cargo", "xtask", "build", "--rust-only">>
    \o XtaskPlatformArgs(o.platform)
    \o (IF o.mcs THEN <<"--mcs", "on">> ELSE <<>>)
    \o (IF o.nofastpath THEN <<"--nofastpath">> ELSE <<>>)
    \o (IF o.bin THEN <<"--bin">> ELSE <<>>)

Supported(platform) == platform \in {"spike", "qemu-arm-virt"}

InstallPrefixFlag(prefix) == "-DCMAKE_INSTALL_PREFIX=" \o prefix

Rel4KernelFlag(bin) == "-DREL4_KERNEL=" \o (IF bin THEN "TRUE" ELSE "FALSE")

BuildPath(dir) == dir \o "/build"

\* the cmake arguments of install_sel4_kernel
Sel4CmakeArgs(o, dir) ==
    IF o.platform = "spike" THEN
        <<"-DCROSS_COMPILER_PREFIX=riscv64-unknown-linux-gnu-",
          InstallPrefixFlag(o.sel4_prefix),
          "-DKernelArch=riscv", "-DKernelPlatform=spike", "-DKernelSel4Arch=riscv64",
          "-DKernelVerificationBuild=OFF",
          "-G", "Ninja", "-S", ".", "-B", BuildPath(dir)>>
    ELSE IF o.platform = "qemu-arm-virt" THEN
        <<"-DCROSS_COMPILER_PREFIX=aarch64-linux-gnu-", "-DKernelAllowSMCCalls=ON",
          InstallPrefixFlag(o.sel4_prefix),
          "-DKernelArmExportPCNTUser=ON", "-DKernelArmExportPTMRUser=ON",
          "-DARM_CPU=cortex-a57", "-DKernelArch=arm",
          "-DKernelArmHypervisorSupport=OFF", "-DKernelPlatform=qemu-arm-virt",
          "-DKernelSel4Arch=aarch64", "-DKernelVerificationBuild=OFF",
          "-G", "Ninja", "-S", ".", "-B", BuildPath(dir)>>
    ELSE <<>>

\* the cmake arguments of install_rel4_kernel
Rel4CmakeArgs(o, dir) ==
    IF o.platform = "spike" THEN
        <<"-DCROSS_COMPILER_PREFIX=riscv64-unknown-linux-gnu-",
          InstallPrefixFlag(o.sel4_prefix), Rel4KernelFlag(o.bin),
          "-C", "./kernel-settings-riscv64.cmake",
          "-G", "Ninja", "-S", ".", "-B", BuildPath(dir)>>
    ELSE IF o.platform = "qemu-arm-virt" THEN
        <<"-DCROSS_COMPILER_PREFIX=aarch64-linux-gnu-", "-DKernelAllowSMCCalls=ON",
          InstallPrefixFlag(o.sel4_prefix), Rel4KernelFlag(o.bin),
          "-DKernelArmExportPCNTUser=ON", "-DKernelArmExportPTMRUser=ON",
          "-C", "./kernel-settings-aarch64.cmake",
          "-G", "Ninja", "-S", ".", "-B", BuildPath(dir)>>
    ELSE <<>>

Sel4CloneArgs == <<"clone", "https://github.com/seL4/seL4.git", Sel4Path>>

Rel4CloneArgs(o) ==
    <<"clone", "https://github.com/reL4team2/rel4-integral.git", Rel4Path,
      "--config", "advice.detachedHead=false", "--depth", "1", "--branch", o.branch>>

CImplCloneArgs ==
    <<"clone", "https://github.com/reL4team2/seL4_c_impl.git", Sel4Path,
      "--config", "advice.detachedHead=false">>

FixupArgs == <<"update", "home@0.5.11", "--precise", "0.5.5">>

\* target triple of the binary-mode kernel image
KernelTarget(platform) ==
    IF platform = "spike" THEN "riscv64imac-unknown-none-elf"
    ELSE "aarch64-unknown-none-softfloat"

KernelImage(dir, platform) ==
    dir \o "/target/" \o KernelTarget(platform) \o "/release/rel4_kernel"

\* mutant of LoaderTarget: the platform is not consulted
LoaderTarget_Arm(platform) == "aarch64-unknown-none"

\* target triple of the loader
LoaderTarget(platform) ==
    IF platform = "spike" THEN "riscv64imac-unknown-none-elf" ELSE "aarch64-unknown-none"

LoaderUrl == "https://github.com/reL4team2/rust-sel4.git"
LoaderRev == "642b58d807c5e5fc22f0c15d1467d6bec328faa9"

PayloadArgs(o) ==
    <<"run", "nightly-2024-08-01", "cargo", "install",
      "--git", LoaderUrl, "--rev", LoaderRev, "--root", o.sel4_prefix,
      "sel4-kernel-loader-add-payload">>
    \o (IF o.force THEN <<"--force">> ELSE <<>>)

LoaderArgs(o) ==
    <<"run", "nightly-2024-08-01", "cargo", "install",
      "-Z", "build-std=core,compiler_builtins",
      "-Z", "build-std-features=compiler-builtins-mem",
      "--target", LoaderTarget(o.platform),
      "--git", LoaderUrl, "--rev", LoaderRev, "--root", o.sel4_prefix,
      "sel4-kernel-loader">>
    \o (IF o.force THEN <<"--force">> ELSE <<>>)

(* ------------- environments of the children the code spawns ------------- *)

\* Command::new(..) with no env call: the child inherits everything
PlainEnv == Inherited

\* the kernel build: Command::new("rustup") with args and current_dir only
XtaskEnv == Inherited

\* .env_remove("RUSTUP_TOOLCHAIN").env_remove("CARGO")
PayloadEnv == Inherited \ {"RUSTUP_TOOLCHAIN", "CARGO"}

\* the same two removals, then .env("SEL4_PREFIX", ..).env("CC_aarch64_unknown_none", ..)
LoaderEnv ==
    (Inherited \ {"RUSTUP_TOOLCHAIN", "CARGO"}) \cup {"SEL4_PREFIX", "CC_aarch64_unknown_none"}

(* ------------------------------ control --------------------------------- *)

\* `return Err(..)', `?' on an io::Error, or a panic: install() and main()
\* pass it on, the process ends
Return(r) ==
    /\ result' = r
    /\ pc' = "exit"

Goto(l) ==
    /\ pc' = l
    /\ result' = result

Spawn(op, dir, args, env, r) == trace' = Append(trace, Event(op, dir, args, env, r))

\* mutant of RunChecked: a non-zero exit is not tested
RunChecked_Unchecked(op, dir, args, env, cwdExists, msg, next) ==
    \E r \in Outcomes(cwdExists) :
        /\ Spawn(op, dir, args, env, r)
        /\ IF r = "nostart" THEN Return("Err(io)") ELSE Goto(next)

\* Command::status()? followed by `if !status.success() { return Err(msg) }'
RunChecked(op, dir, args, env, cwdExists, msg, next) ==
    \E r \in Outcomes(cwdExists) :
        /\ Spawn(op, dir, args, env, r)
        /\ IF r = "nostart" THEN Return("Err(io)")
           ELSE IF r = "fail" THEN Return(msg)
           ELSE Goto(next)

\* what a clone leaves at its destination: git refuses a destination that is
\* there already, a clone that ends early may leave debris behind
AfterClone(d, r, left, tree) ==
    IF r = "ok" THEN tree
    ELSE IF r = "fail" /\ left THEN Debris
    ELSE d

\* mutant of Retry: the status of the clone is not consulted
Retry_AnyStatus(r, n) == n < RetryLimit

\* the loop condition: !command.status()?.success() && attempts < 3
Retry(r, n) == r = "fail" /\ n < RetryLimit

\* let mut attempts = 0;
\* while !command.status()?.success() && attempts < 3 { attempts += 1; .. }
CloneLoop(op, args, field, tree, next) ==
    \E r \in Statuses, left \in BOOLEAN :
        /\ r = "ok" => ~fs[field].exists
        /\ left => (r = "fail" /\ ~fs[field].exists)
        /\ Spawn(op, ".", args, PlainEnv, r)
        /\ fs' = [fs EXCEPT ![field] = AfterClone(@, r, left, tree)]
        /\ IF r = "nostart" THEN Return("Err(io)") /\ attempts' = attempts
           ELSE IF Retry(r, attempts)
                THEN Goto(pc) /\ attempts' = attempts + 1
                ELSE Goto(next) /\ attempts' = attempts

\* std::fs::remove_dir_all(path), its error swallowed: the error of a
\* directory that is not there; a directory that is there is taken to be
\* removable (the tool owns its staging directories)
RemoveDirAll(path, field) ==
    /\ trace' = Append(trace, FsEvent("remove_dir_all", path,
                                      IF fs[field].exists THEN "ok" ELSE "fail"))
    /\ fs' = [fs EXCEPT ![field] = Absent]

\* mutants of MustFetch: the fetch is unconditional; force is not consulted
MustFetch_Always(o, d) == TRUE
MustFetch_IfMissing(o, d) == ~d.exists

\* opts.force || !Path::new(path).exists()
MustFetch(o, d) == o.force \/ ~d.exists

(* ------------------------------- actions --------------------------------- *)

\* fs0 is the filesystem as the running invocation found it (history only)

Init ==
    /\ opts = DefaultOptions
    /\ pc = "idle"
    /\ attempts = 0
    /\ fs = [rel4 |-> Absent, sel4 |-> Absent]
    /\ fs0 = fs
    /\ trace = <<>>
    /\ result = "none"
    /\ runs = 0

\* mutant of InstallKernel: the baseline revision is not consulted
InstallKernel_Project(o) == "rel4_begin"

\* install_kernel(): the flow a baseline revision selects
InstallKernel(o) == IF o.sel4_baseline # "None" THEN "sel4_begin" ELSE "rel4_begin"

\* main(): Options::parse(), then install() enters install_kernel()
Invoke ==
    /\ pc = "idle"
    /\ runs < MaxRuns
    /\ runs' = runs + 1
    /\ \E o \in KernelOptions : opts' = o
    /\ pc' = InstallKernel(opts')
    /\ trace' = <<>>
    /\ result' = "running"
    /\ attempts' = 0
    /\ fs0' = fs
    /\ UNCHANGED fs

(* install_sel4_kernel *)

Sel4Begin ==
    /\ pc = "sel4_begin"
    /\ RemoveDirAll(Sel4Path, "sel4")
    /\ attempts' = 0
    /\ Goto("sel4_clone")
    /\ UNCHANGED <<opts, fs0, runs>>

Sel4Clone ==
    /\ pc = "sel4_clone"
    /\ CloneLoop("clone_sel4", Sel4CloneArgs, "sel4", Tree("seL4", "none"), "sel4_checkout")
    /\ UNCHANGED <<opts, fs0, runs>>

Sel4Checkout ==
    /\ pc = "sel4_checkout"
    /\ RunChecked("checkout", Sel4Path, <<"checkout", opts.sel4_baseline>>, PlainEnv,
                  fs.sel4.exists, "Err(Failed to checkout specific commit)", "sel4_cmake")
    /\ UNCHANGED <<opts, attempts, fs, fs0, runs>>

\* canonicalize(..)?, the platform match, then cmake
Sel4Cmake ==
    /\ pc = "sel4_cmake"
    /\ IF ~fs.sel4.exists THEN Return("Err(io)") /\ UNCHANGED trace
       ELSE IF ~Supported(opts.platform)
            THEN Return("Err(Unsupported platform)") /\ UNCHANGED trace
            ELSE RunChecked("cmake", Sel4Path, Sel4CmakeArgs(opts, Sel4Path), PlainEnv, TRUE,
                            "Err(Failed to configure project with CMake)", "sel4_ninja_all")
    /\ UNCHANGED <<opts, attempts, fs, fs0, runs>>

Sel4NinjaAll ==
    /\ pc = "sel4_ninja_all"
    /\ RunChecked("ninja_all", Sel4Path, <<"-C", "build", "all">>, PlainEnv, fs.sel4.exists,
                  "Err(Failed to build project with Ninja)", "sel4_ninja_install")
    /\ UNCHANGED <<opts, attempts, fs, fs0, runs>>

Sel4NinjaInstall ==
    /\ pc = "sel4_ninja_install"
    /\ RunChecked("ninja_install", Sel4Path, <<"-C", "build", "install">>, PlainEnv,
                  fs.sel4.exists, "Err(Failed to install project with Ninja)", "payload")
    /\ UNCHANGED <<opts, attempts, fs, fs0, runs>>

(* install_rel4_kernel *)

\* mutant of Rel4KernelDir: the local path is not consulted
Rel4KernelDir_Staging(o) == Rel4Path

\* the source tree the kernel is built in
Rel4KernelDir(o) == IF o.local # "None" THEN o.local ELSE Rel4Path

\* the tree cmake and ninja run in
BuildSel4Dir(o) == IF o.local # "None" THEN LocalSel4Path ELSE Sel4Path

Rel4Begin ==
    /\ pc = "rel4_begin"
    /\ IF opts.local = "None" /\ MustFetch(opts, fs.rel4)
       THEN RemoveDirAll(Rel4Path, "rel4") /\ Goto("rel4_clone")
       ELSE Goto("rel4_build") /\ UNCHANGED <<trace, fs>>
    /\ attempts' = 0
    /\ UNCHANGED <<opts, fs0, runs>>

Rel4Clone ==
    /\ pc = "rel4_clone"
    /\ CloneLoop("clone_rel4", Rel4CloneArgs(opts), "rel4",
                 Tree("rel4-integral", opts.branch), "rel4_fixup")
    /\ UNCHANGED <<opts, fs0, runs>>

\* fix home version bug
Rel4Fixup ==
    /\ pc = "rel4_fixup"
    /\ RunChecked("fixup", Rel4Path, FixupArgs, PlainEnv, fs.rel4.exists,
                  "Err(Failed to update home version)", "rel4_build")
    /\ fs' = IF pc' = "rel4_build" THEN [fs EXCEPT !.rel4.fixed = TRUE] ELSE fs
    /\ UNCHANGED <<opts, attempts, fs0, runs>>

\* the directory a command of the rel4 flow is started in is there: a local
\* path is the user's, a staging path is there if the filesystem has it
DirExists(o, d) == o.local # "None" \/ d.exists

\* mutant of CopyStatus: the error of the copy is dropped
CopyStatus_Dropped(cp, next) == next

\* std::fs::copy(&kernel_path, &install_path)?: the io::Error of an image that
\* is not there is returned as it is
CopyStatus(cp, next) == IF cp = "fail" THEN Return("Err(io)") ELSE next

\* the xtask build, then in binary mode create_dir_all and copy of the image
Rel4Build ==
    /\ pc = "rel4_build"
    /\ IF ~Supported(opts.platform)
       THEN Return("Err(Unsupported platform)") /\ UNCHANGED trace
       ELSE \E r \in Outcomes(DirExists(opts, fs.rel4)), mk \in {"ok", "fail"},
               cp \in {"ok", "fail"} :
            LET build == Event("xtask", Rel4KernelDir(opts), XtaskArgs(opts), XtaskEnv, r)
                mkdir == FsEvent("create_dir_all", opts.sel4_prefix \o "/bin", mk)
                copy  == Event("copy", opts.sel4_prefix \o "/bin/kernel.elf",
                               <<KernelImage(Rel4KernelDir(opts), opts.platform)>>, {}, cp)
            IN  IF r # "ok" \/ ~opts.bin
                THEN /\ mk = "ok" /\ cp = "ok"
                     /\ trace' = Append(trace, build)
                     /\ IF r = "nostart" THEN Return("Err(io)")
                        ELSE IF r = "fail" THEN Return("Err(Failed to build reL4 kernel)")
                        ELSE Goto("cimpl_begin")
                ELSE IF mk = "fail"
                THEN /\ cp = "ok"
                     /\ trace' = trace \o <<build, mkdir>>
                     /\ Return("Err(io)")
                ELSE /\ trace' = trace \o <<build, mkdir, copy>>
                     /\ CopyStatus(cp, Goto("cimpl_begin"))
    /\ UNCHANGED <<opts, attempts, fs, fs0, runs>>

CImplBegin ==
    /\ pc = "cimpl_begin"
    /\ IF opts.local = "None" /\ MustFetch(opts, fs.sel4)
       THEN RemoveDirAll(Sel4Path, "sel4") /\ Goto("cimpl_clone")
       ELSE Goto("rel4_cmake") /\ UNCHANGED <<trace, fs>>
    /\ attempts' = 0
    /\ UNCHANGED <<opts, fs0, runs>>

CImplClone ==
    /\ pc = "cimpl_clone"
    /\ CloneLoop("clone_c_impl", CImplCloneArgs, "sel4", Tree("seL4_c_impl", "none"),
                 "rel4_cmake")
    /\ UNCHANGED <<opts, fs0, runs>>

Rel4Cmake ==
    /\ pc = "rel4_cmake"
    /\ IF ~DirExists(opts, fs.sel4) THEN Return("Err(io)") /\ UNCHANGED trace
       ELSE IF ~Supported(opts.platform)
            THEN Return("Err(Unsupported platform)") /\ UNCHANGED trace
            ELSE RunChecked("cmake", BuildSel4Dir(opts),
                            Rel4CmakeArgs(opts, BuildSel4Dir(opts)), PlainEnv, TRUE,
                            "Err(Failed to configure project with CMake)", "rel4_ninja_all")
    /\ UNCHANGED <<opts, attempts, fs, fs0, runs>>

Rel4NinjaAll ==
    /\ pc = "rel4_ninja_all"
    /\ RunChecked("ninja_all", BuildSel4Dir(opts), <<"-C", "build", "all">>, PlainEnv,
                  DirExists(opts, fs.sel4), "Err(Failed to build project with Ninja)",
                  "rel4_ninja_install")
    /\ UNCHANGED <<opts, attempts, fs, fs0, runs>>

Rel4NinjaInstall ==
    /\ pc = "rel4_ninja_install"
    /\ RunChecked("ninja_install", BuildSel4Dir(opts), <<"-C", "build", "install">>, PlainEnv,
                  DirExists(opts, fs.sel4), "Err(Failed to install project with Ninja)",
                  "payload")
    /\ UNCHANGED <<opts, attempts, fs, fs0, runs>>

(* install_kernel_loader *)

\* what the code does with the status of a loader `cargo install':
\* .status().expect(..) panics when the process cannot start, the ExitStatus
\* itself is dropped
LoaderStatus(r, next) == IF r = "nostart" THEN Return("panic") ELSE next

InstallPayload ==
    /\ pc = "payload"
    /\ \E r \in Statuses :
        /\ Spawn("loader_payload", ".", PayloadArgs(opts), PayloadEnv, r)
        /\ LoaderStatus(r, Goto("loader"))
    /\ UNCHANGED <<opts, attempts, fs, fs0, runs>>

InstallLoader ==
    /\ pc = "loader"
    /\ IF ~Supported(opts.platform)
       THEN Return("Err(Unsupported platform)") /\ UNCHANGED trace
       ELSE \E r \in Statuses :
            /\ Spawn("loader", ".", LoaderArgs(opts), LoaderEnv, r)
            /\ LoaderStatus(r, Return("Ok"))
    /\ UNCHANGED <<opts, attempts, fs, fs0, runs>>

\* the process ends: its memory is gone, the directories under /tmp stay
Exit ==
    /\ pc = "exit"
    /\ pc' = "idle"
    /\ opts' = DefaultOptions
    /\ attempts' = 0
    /\ trace' = <<>>
    /\ result' = "none"
    /\ fs0' = fs
    /\ UNCHANGED <<fs, runs>>

Next ==
    \/ Invoke \/ Exit
    \/ Sel4Begin \/ Sel4Clone \/ Sel4Checkout \/ Sel4Cmake \/ Sel4NinjaAll \/ Sel4NinjaInstall
    \/ Rel4Begin \/ Rel4Clone \/ Rel4Fixup \/ Rel4Build
    \/ CImplBegin \/ CImplClone \/ Rel4Cmake \/ Rel4NinjaAll \/ Rel4NinjaInstall
    \/ InstallPayload \/ InstallLoader

Spec == Init /\ [][Next]_vars

\* the exit status of the process: main returns Ok, returns Err, or panics
ExitCode(r) == IF r = "Ok" THEN 0 ELSE IF r = "panic" THEN 101 ELSE 1

TypeOK ==
    /\ opts \in KernelOptions
    /\ attempts \in 0..RetryLimit
    /\ runs \in 0..MaxRuns

(* ------------------------- reading the trace ----------------------------- *)

CloneOps == {"clone_sel4", "clone_rel4", "clone_c_impl"}
FsOps == {"remove_dir_all", "create_dir_all", "copy"}
BuildOps == {"xtask", "cmake", "ninja_all", "ninja_install", "loader_payload", "loader"}
StepOps == {"checkout", "fixup", "xtask", "cmake", "ninja_all", "ninja_install"}
StagingPaths == {Rel4Path, Sel4Path}

IsCommand(e) == e.op \notin FsOps
IsClone(e) == e.op \in CloneOps

\* the destination of a git clone is its third argument
CloneTarget(e) == e.args[3]

Count(op) == Cardinality({i \in DOMAIN trace : trace[i].op = op})

Spawned(op) == \E i \in DOMAIN trace : trace[i].op = op

\* the position of the clone loop of an acquisition
LoopPc(op) ==
    IF op = "clone_sel4" THEN "sel4_clone"
    ELSE IF op = "clone_rel4" THEN "rel4_clone" ELSE "cimpl_clone"

\* the loop of this acquisition is over and none of its clones exited zero
AllClonesFailed(op) ==
    /\ Spawned(op)
    /\ pc # LoopPc(op)
    /\ \A i \in DOMAIN trace : trace[i].op = op => trace[i].res = "fail"

Running == pc # "idle"
Remote == opts.local = "None"
NoBaseline == opts.sel4_baseline = "None"

\* the staging directory at `path' is neither removed nor cloned into
Untouched(path) ==
    \A i \in DOMAIN trace :
        /\ ~(trace[i].op = "remove_dir_all" /\ trace[i].dir = path)
        /\ ~(IsClone(trace[i]) /\ CloneTarget(trace[i]) = path)

(* ------------------------------ C1 --------------------------------------- *)

\* C1: within one invocation, each acquisition invokes git clone at most 3
\* times, however many of the invocations exit non-zero.
C1_CloneAtMostThree == \A op \in CloneOps : Count(op) <= 3

(* ------------------------------ C2 --------------------------------------- *)

\* C2: if every clone attempt of an acquisition exits non-zero, the invocation
\* ends there with an error: the last thing spawned is that clone.
C2_FailedCloneStops ==
    \A op \in CloneOps :
        AllClonesFailed(op) =>
            /\ pc = "exit"
            /\ result \notin {"Ok", "running"}
            /\ trace[Len(trace)].op = op

(* ------------------------------ C3 --------------------------------------- *)

\* C3 as stated: remote source, force unset, and the staging directory is
\* there when the invocation starts: it is neither cloned into nor removed,
\* with or without a baseline revision.
C3_ReuseAnyFlow ==
    (Running /\ Remote /\ ~opts.force) =>
        /\ fs0.rel4.exists => (Untouched(Rel4Path) /\ fs.rel4 = fs0.rel4)
        /\ fs0.sel4.exists => (Untouched(Sel4Path) /\ fs.sel4 = fs0.sel4)

\* C3 amended: the same, in the flow without a baseline revision.
C3_ReuseExisting ==
    (Running /\ Remote /\ ~opts.force /\ NoBaseline) =>
        /\ fs0.rel4.exists => (Untouched(Rel4Path) /\ fs.rel4 = fs0.rel4)
        /\ fs0.sel4.exists => (Untouched(Sel4Path) /\ fs.sel4 = fs0.sel4)

\* both staging trees were there, nothing was fetched and the kernel stage ran on them
C3_Witness ==
    /\ Remote /\ ~opts.force /\ NoBaseline
    /\ fs0.rel4.exists /\ fs0.sel4.exists
    /\ \E i \in DOMAIN trace : trace[i].op = "xtask" /\ trace[i].dir = Rel4Path
    /\ \E i \in DOMAIN trace : trace[i].op = "ninja_install" /\ trace[i].dir = Sel4Path
    /\ ~\E i \in DOMAIN trace : IsClone(trace[i])

(* ------------------------------ C4 --------------------------------------- *)

\* C4: with a platform other than spike and qemu-arm-virt the invocation
\* spawns nothing and changes nothing on the filesystem, and ends with the
\* validation error.
C4_UnsupportedPlatformFirst ==
    (Running /\ ~Supported(opts.platform)) =>
        /\ trace = <<>>
        /\ fs = fs0
        /\ pc = "exit" => result = "Err(Unsupported platform)"

(* ------------------------------ C5 --------------------------------------- *)

\* a command that did not start or exited non-zero; a clone counts when it is
\* the last of its loop
FailedAt(i) ==
    /\ IsCommand(trace[i])
    /\ trace[i].res # "ok"
    /\ IsClone(trace[i]) =>
          /\ i < Len(trace) \/ pc # LoopPc(trace[i].op)
          /\ ~(i < Len(trace) /\ trace[i + 1].op = trace[i].op)

\* C5: once a command has failed, no further command is spawned.
C5_NothingAfterFailure ==
    \A i \in DOMAIN trace :
        FailedAt(i) => ~\E j \in DOMAIN trace : j > i /\ IsCommand(trace[j])

(* ------------------------------ C6 --------------------------------------- *)

\* C6: the invocation returns Ok only if every build, configure and install
\* command it spawned, both loader installs included, exited zero.
C6_OkOnlyOnFullSuccess ==
    (pc = "exit" /\ ExitCode(result) = 0) =>
        \A i \in DOMAIN trace : trace[i].op \in BuildOps => trace[i].res = "ok"

(* ------------------------------ C7 --------------------------------------- *)

\* no clone, no removal, and every kernel build runs in the supplied path
LocalOnly ==
    /\ \A i \in DOMAIN trace : ~IsClone(trace[i]) /\ trace[i].op # "remove_dir_all"
    /\ fs = fs0
    /\ \A i \in DOMAIN trace : trace[i].op = "xtask" => trace[i].dir = opts.local

\* C7 as stated: with a local source path the kernel stage clones nothing,
\* removes nothing and builds in the supplied path, for every other flag.
C7_LocalAnyFlow == (Running /\ ~Remote) => LocalOnly

\* C7 amended: the same, when no baseline revision is supplied.
C7_LocalUntouched == (Running /\ ~Remote /\ NoBaseline) => LocalOnly

\* a forced invocation with a local path has built the kernel in that path
C7_Witness ==
    /\ ~Remote /\ NoBaseline /\ opts.force
    /\ \E i \in DOMAIN trace :
          trace[i].op = "xtask" /\ trace[i].dir = LocalPath /\ trace[i].res = "ok"
    /\ Spawned("cmake")

(* ------------------------------ C8 --------------------------------------- *)

C9_FixupIffFreshClone ==
    /\ \A j \in DOMAIN trace :
          trace[j].op = "fixup" =>
              \E i \in DOMAIN trace :
                  i < j /\ trace[i].op = "clone_rel4" /\ trace[i].res = "ok"
    /\ \A i \in DOMAIN trace :
          (trace[i].op = "clone_rel4" /\ trace[i].res = "ok" /\ pc # "rel4_fixup")
              => Spawned("fixup")
    /\ \A j \in DOMAIN trace :
          (trace[j].op = "fixup" /\ trace[j].res = "fail") =>
              /\ result = "Err(Failed to update home version)"
              /\ ~Spawned("xtask")

(* ------------------------------ C10 -------------------------------------- *)

\* spawned through `rustup run nightly-..'
Pinned(e) == e.op \in {"xtask", "loader_payload", "loader"} /\ e.args[1] = "run"

\* C10: a command spawned through rustup with a pinned toolchain has
\* RUSTUP_TOOLCHAIN and CARGO removed from its environment and keeps every
\* other inherited variable.
C10_PinnedEnvCleared ==
    \A i \in DOMAIN trace :
        Pinned(trace[i]) =>
            /\ trace[i].env \cap {"RUSTUP_TOOLCHAIN", "CARGO"} = {}
            /\ (Inherited \ {"RUSTUP_TOOLCHAIN", "CARGO"}) \subseteq trace[i].env

(* ------------------------------ C11 -------------------------------------- *)

BuildFailure == "Err(Failed to build reL4 kernel)"

\* C11: in binary mode, when the kernel build exited zero and the image is
\* not there, the invocation ends with an error that is not the build-failure
\* error, and nothing is spawned after the copy.
C11_ArtifactMissing ==
    \A i \in DOMAIN trace :
        (trace[i].op = "copy" /\ trace[i].res = "fail") =>
            /\ opts.bin
            /\ \E j \in DOMAIN trace : j < i /\ trace[j].op = "xtask" /\ trace[j].res = "ok"
            /\ pc = "exit"
            /\ result \notin {"Ok", "running", BuildFailure}
            /\ i = Len(trace)

\* the build exited zero and the copy of the image failed
C11_Witness ==
    /\ opts.bin
    /\ \E j \in DOMAIN trace : trace[j].op = "xtask" /\ trace[j].res = "ok"
    /\ \E i \in DOMAIN trace : trace[i].op = "copy" /\ trace[i].res = "fail"
    /\ pc = "exit"

(* ------------------------------ C12 -------------------------------------- *)

Has(args, a) == \E i \in DOMAIN args : args[i] = a

UpstreamOps == {"clone_sel4", "checkout"}
ProjectOps == {"clone_rel4", "fixup", "xtask", "create_dir_all", "copy", "clone_c_impl"}

\* flags only the cmake of the upstream flow passes
UpstreamFlags ==
    {"-DKernelArch=riscv", "-DKernelArch=arm", "-DKernelPlatform=spike",
     "-DKernelPlatform=qemu-arm-virt", "-DKernelSel4Arch=riscv64",
     "-DKernelSel4Arch=aarch64", "-DKernelVerificationBuild=OFF",
     "-DKernelArmHypervisorSupport=OFF", "-DARM_CPU=cortex-a57"}

\* arguments only the cmake of the project flow passes
ProjectFlags ==
    {"./kernel-settings-riscv64.cmake", "./kernel-settings-aarch64.cmake",
     "-DREL4_KERNEL=TRUE", "-DREL4_KERNEL=FALSE"}

HasAny(args, flags) == \E a \in flags : Has(args, a)

\* C12: with a baseline revision only commands of the upstream flow are
\* issued, without one only commands of the project flow; an invocation
\* never has commands of both.
C12_FlowsExclusive ==
    Running =>
        \A i \in DOMAIN trace :
            IF ~NoBaseline
            THEN /\ trace[i].op \notin ProjectOps
                 /\ trace[i].op = "cmake" =>
                        /\ HasAny(trace[i].args, UpstreamFlags)
                        /\ ~HasAny(trace[i].args, ProjectFlags)
            ELSE /\ trace[i].op \notin UpstreamOps
                 /\ trace[i].op = "cmake" =>
                        /\ HasAny(trace[i].args, ProjectFlags)
                        /\ ~HasAny(trace[i].args, UpstreamFlags)

\* a baseline invocation that cloned upstream seL4, checked the revision
\* out and configured it
C12_Witness ==
    /\ ~NoBaseline
    /\ \E i \in DOMAIN trace : trace[i].op = "clone_sel4" /\ trace[i].res = "ok"
    /\ \E i \in DOMAIN trace :
          trace[i].op = "checkout" /\ Has(trace[i].args, BaselineCommit)
    /\ \E i \in DOMAIN trace : trace[i].op = "cmake" /\ trace[i].res = "ok"

(* ------------------------------ C13 -------------------------------------- *)

Occurs(args, a) == Cardinality({i \in DOMAIN args : args[i] = a})

\* what each platform requires of each composed argument list
RiscvPrefix == "-DCROSS_COMPILER_PREFIX=riscv64-unknown-linux-gnu-"
ArmPrefix == "-DCROSS_COMPILER_PREFIX=aarch64-linux-gnu-"
ArmExports ==
    {"-DKernelAllowSMCCalls=ON", "-DKernelArmExportPCNTUser=ON", "-DKernelArmExportPTMRUser=ON"}

RequiredFlags(platform, kind) ==
    IF platform = "spike" THEN
        CASE kind = "xtask" -> {"--platform", "spike"}
          [] kind = "cmake_project" -> {RiscvPrefix, "./kernel-settings-riscv64.cmake"}
          [] kind = "cmake_upstream" ->
                {RiscvPrefix, "-DKernelArch=riscv", "-DKernelPlatform=spike",
                 "-DKernelSel4Arch=riscv64"}
          [] kind = "loader" -> {"--target", "riscv64imac-unknown-none-elf"}
          [] OTHER -> {}
    ELSE
        CASE kind = "xtask" ->
                {"--platform", "qemu-arm-virt", "-s", "--arm-pcnt", "--arm-ptmr"}
          [] kind = "cmake_project" ->
                {ArmPrefix, "./kernel-settings-aarch64.cmake"} \cup ArmExports
          [] kind = "cmake_upstream" ->
                {ArmPrefix, "-DARM_CPU=cortex-a57", "-DKernelArch=arm",
                 "-DKernelArmHypervisorSupport=OFF", "-DKernelPlatform=qemu-arm-virt",
                 "-DKernelSel4Arch=aarch64"} \cup ArmExports
          [] kind = "loader" -> {"--target", "aarch64-unknown-none"}
          [] OTHER -> {}

Kinds == {"xtask", "cmake_project", "cmake_upstream", "loader"}

PlatformFlags(platform) == UNION {RequiredFlags(platform, k) : k \in Kinds}

\* flags that belong to the other platform only
SpikeForeign == PlatformFlags("qemu-arm-virt") \ PlatformFlags("spike")
ArmForeign == PlatformFlags("spike") \ PlatformFlags("qemu-arm-virt")
ForeignFlags(platform) == IF platform = "spike" THEN SpikeForeign ELSE ArmForeign

KindOf(e) ==
    IF e.op = "cmake"
    THEN (IF NoBaseline THEN "cmake_project" ELSE "cmake_upstream")
    ELSE e.op

\* the commands whose argument list depends on the platform
Composed(e) == e.op \in {"xtask", "cmake", "loader"}

\* C13: on a supported platform every argument list the code composes for
\* the kernel build, the configure step and the loader install has each flag
\* its platform requires exactly once and no flag of the other platform.
C13_PlatformFlags ==
    (Running /\ Supported(opts.platform)) =>
        \A i \in {k \in DOMAIN trace : Composed(trace[k])} :
            /\ \A a \in RequiredFlags(opts.platform, KindOf(trace[i])) :
                   Occurs(trace[i].args, a) = 1
            /\ \A k \in DOMAIN trace[i].args :
                   trace[i].args[k] \notin ForeignFlags(opts.platform)

\* spike with every mode flag set: kernel build, configure and loader install
\* have all been composed and spawned
C13_Witness ==
    /\ opts.platform = "spike" /\ opts.mcs /\ opts.nofastpath /\ opts.bin
    /\ Spawned("xtask") /\ Spawned("cmake") /\ Spawned("loader")

(* ------------------------------ C14 -------------------------------------- *)

KernelElf == "/workspace/.seL4/bin/kernel.elf"

BuildOk(i) == trace[i].op = "xtask" /\ trace[i].res = "ok"

\* C14: in the project flow the installer step (create_dir_all, then the copy
\* of the image to <prefix>/bin/kernel.elf) is carried out exactly when binary
\* mode is set and the kernel build exited zero; the build has --bin iff
\* binary mode and --mcs iff mcs; without binary mode there is no directory
\* creation and no copy.
C14_InstallerIffBin ==
    (Running /\ NoBaseline) =>
        /\ \A i \in DOMAIN trace :
              trace[i].op = "xtask" =>
                  /\ Has(trace[i].args, "--bin") <=> opts.bin
                  /\ Has(trace[i].args, "--mcs") <=> opts.mcs
                  /\ (BuildOk(i) /\ opts.bin) <=>
                        (i < Len(trace) /\ trace[i + 1].op = "create_dir_all")
        /\ \A i \in DOMAIN trace :
              trace[i].op = "create_dir_all" =>
                  /\ i > 1 /\ BuildOk(i - 1) /\ opts.bin
                  /\ trace[i].res = "ok" <=>
                        (i < Len(trace) /\ trace[i + 1].op = "copy")
        /\ \A i \in DOMAIN trace :
              trace[i].op = "copy" =>
                  /\ i > 2 /\ BuildOk(i - 2) /\ opts.bin
                  /\ trace[i].dir = KernelElf
                  /\ trace[i].res # "ok" => i = Len(trace)
        /\ ~opts.bin =>
              \A i \in DOMAIN trace : trace[i].op \notin {"create_dir_all", "copy"}

\* binary mode with mcs: the image was copied and the kernel stage went on
C14_Witness ==
    /\ NoBaseline /\ opts.bin /\ opts.mcs
    /\ \E i \in DOMAIN trace : BuildOk(i)
    /\ \E i \in DOMAIN trace :
          trace[i].op = "copy" /\ trace[i].res = "ok" /\ trace[i].dir = KernelElf
    /\ Spawned("cmake")

(* ------------------------------ C15 -------------------------------------- *)

\* C15: within an acquisition a clone that exited zero is the last clone: the
\* loop is left and that clone command is not invoked again.
C15_NoCloneAfterSuccess ==
    \A i \in DOMAIN trace :
        (IsClone(trace[i]) /\ trace[i].res = "ok") =>
            /\ pc # LoopPc(trace[i].op)
            /\ \A j \in DOMAIN trace : j > i => trace[j].op # trace[i].op

\* a clone failed, its second attempt exited zero, and the flow went on
C15_Witness ==
    \E i \in DOMAIN trace :
        /\ IsClone(trace[i]) /\ trace[i].res = "fail"
        /\ i + 1 < Len(trace)
        /\ trace[i + 1].op = trace[i].op /\ trace[i + 1].res = "ok"

(* ------------------------------ C16 -------------------------------------- *)

AcquireOps == CloneOps \cup {"remove_dir_all", "checkout", "fixup"}

\* the place of a step in the order the claim states: every acquisition,
\* kernel build, configure, ninja build, ninja install, loader installs
StatedRank(e) ==
    CASE e.op \in AcquireOps -> 0
      [] e.op \in {"xtask", "create_dir_all", "copy"} -> 1
      [] e.op = "cmake" -> 2
      [] e.op = "ninja_all" -> 3
      [] e.op = "ninja_install" -> 4
      [] e.op = "loader_payload" -> 5
      [] OTHER -> 6

\* the same with the acquisition of seL4_c_impl in its place of the project
\* flow, between the kernel build and the configure step
IsCImplAcquire(e) ==
    \/ e.op = "clone_c_impl"
    \/ e.op = "remove_dir_all" /\ e.dir = Sel4Path /\ NoBaseline

Rank(e) == IF IsCImplAcquire(e) THEN 3 ELSE 2 * StatedRank(e)

OnceOps == {"xtask", "cmake", "ninja_all", "ninja_install", "loader_payload", "loader"}

\* a loader install is spawned only after ninja install exited zero
LoaderAfterKernelStage ==
    \A j \in DOMAIN trace :
        trace[j].op \in {"loader_payload", "loader"} =>
            \E i \in DOMAIN trace :
                i < j /\ trace[i].op = "ninja_install" /\ trace[i].res = "ok"

\* C16 as stated: all source acquisition, then the kernel build, then cmake,
\* ninja build, ninja install, then the loader installs.
C16_StatedOrder ==
    /\ \A i \in 1..(Len(trace) - 1) : StatedRank(trace[i]) <= StatedRank(trace[i + 1])
    /\ LoaderAfterKernelStage

\* C16 amended: the kernel source is acquired before the kernel build, the
\* seL4_c_impl tree after the kernel build and before cmake; every step is
\* spawned at most once and in this order, the loader installs last.
C16_StepOrder ==
    /\ \A i \in 1..(Len(trace) - 1) : Rank(trace[i]) <= Rank(trace[i + 1])
    /\ \A i \in {k \in DOMAIN trace : trace[k].op \in OnceOps} :
          \A j \in (i + 1)..Len(trace) : trace[j].op # trace[i].op
    /\ LoaderAfterKernelStage

\* a whole invocation of the project flow with both acquisitions
C16_Witness ==
    /\ \E i \in DOMAIN trace : trace[i].op = "clone_rel4" /\ trace[i].res = "ok"
    /\ \E i \in DOMAIN trace : trace[i].op = "clone_c_impl" /\ trace[i].res = "ok"
    /\ Spawned("xtask") /\ Spawned("cmake") /\ Spawned("ninja_all")
    /\ Spawned("ninja_install") /\ Spawned("loader_payload") /\ Spawned("loader")
    /\ pc = "exit" /\ result = "Ok"

(* ------------------------------ C17 -------------------------------------- *)

\* C17: when the project flow has run cmake in /tmp/seL4_kernel, the tree
\* there is not the tree of an upstream seL4 clone.
C17_CImplTreeConfigured ==
    (Running /\ NoBaseline) =>
        \A i \in DOMAIN trace :
            (trace[i].op = "cmake" /\ trace[i].dir = Sel4Path) => fs.sel4.origin # "seL4"

(* ------------------------------ C18 -------------------------------------- *)

\* C18: when the kernel build has run in /tmp/rel4_kernel, the fixup has
\* exited zero on the tree there since it was cloned.
C18_BuildOnFixedTree ==
    \A i \in DOMAIN trace :
        (trace[i].op = "xtask" /\ trace[i].dir = Rel4Path) => fs.rel4.fixed

(* ------------------------------ C19 -------------------------------------- *)

\* C19: when the kernel build has run on a clone in /tmp/rel4_kernel, that
\* clone was made with the branch this invocation asks for.
C19_BuildOnRequestedBranch ==
    \A i \in DOMAIN trace :
        (trace[i].op = "xtask" /\ trace[i].dir = Rel4Path
            /\ fs.rel4.origin = "rel4-integral") => fs.rel4.branch = opts.branch

====
